---- MODULE Spec2Model ----
(***************************************************************************)
(* Model of pdfclassify's incremental embedding cache and classifier       *)
(* (src/src/pdfclassify/pdf_semantic_classifier.py) together with the      *)
(* boost lookup of LabelBoostManager (label_boost_manager.py).             *)
(*                                                                         *)
(* Numbers: similarities, thresholds and boosts are kept in hundredths     *)
(* (0.75 is 75), normalised vector components in tenths.  The training     *)
(* vectors all have Euclidean norm 5, so the arithmetic is exact.          *)
(***************************************************************************)
EXTENDS Integers, Sequences, FiniteSets, TLC

\* ------------------------------------------------------------------ bounds
\* Number of changes the environment makes to the corpus and the cache files.
\* The count of changes made so far is the clock that stamps a written file.
MaxEdits == 2

\* ------------------------------------------------------------------ text
\* str.isspace for the characters used here.
IsSpace(ch) == ch \in {" ", "\t", "\n"}

\* str.strip(): drop leading and trailing whitespace.
RECURSIVE LStrip(_)
LStrip(s) == IF s = << >> THEN << >>
             ELSE IF IsSpace(Head(s)) THEN LStrip(Tail(s)) ELSE s

RECURSIVE RStrip(_)
RStrip(s) == IF s = << >> THEN << >>
             ELSE IF IsSpace(s[Len(s)]) THEN RStrip(SubSeq(s, 1, Len(s) - 1)) ELSE s

Strip(s) == RStrip(LStrip(s))

\* str.lower() on one character of the alphabet used here.
LowerChar(ch) == CASE ch = "I" -> "i"
                   [] ch = "N" -> "n"
                   [] ch = "V" -> "v"
                   [] ch = "R" -> "r"
                   [] ch = "E" -> "e"
                   [] ch = "P" -> "p"
                   [] ch = "D" -> "d"
                   [] ch = "F" -> "f"
                   [] OTHER -> ch

Lower(s) == [i \in 1..Len(s) |-> LowerChar(s[i])]

\* Python's `p in t` on strings: p occurs as a contiguous substring of t
\* (the empty string occurs in every string).
Contains(t, p) == \E i \in 1..(Len(t) - Len(p) + 1) : SubSeq(t, i, i + Len(p) - 1) = p

\* ------------------------------------------------------------------ files
\* What a PDF file can hold.  "broken" is a file pdfminer cannot parse.
Contents == {"inv", "rep", "blank", "broken"}
\* Additional documents handed to predict().
QueryContents == {"inv", "mix", "blank", "empty", "broken"}

\* pdfminer's extract_text succeeds on every content but "broken".
Extractable(c) == c # "broken"

\* The text extract_text returns.
TextOf(c) == CASE c = "inv"   -> <<"I", "n", "v">>
               [] c = "rep"   -> <<"R", "e", "p">>
               [] c = "mix"   -> <<"r", "e", "I", "N">>
               [] c = "blank" -> <<" ", "\n">>
               [] c = "nul"   -> <<"0">>
               [] OTHER       -> << >>

\* SentenceTransformer.encode: a fixed vector per text.
Embed(text) == CASE text = <<"I", "n", "v">> -> <<5, 0>>
                 [] text = <<"R", "e", "p">> -> <<0, 5>>
                 [] text = <<"0">>           -> <<0, 0>>
                 [] OTHER                    -> <<4, 3>>

\* The *.pdf paths that may exist under data_dir, in the order iterdir() and
\* glob() list them.
ScanOrder == <<"invoice/a.pdf", "report/b.pdf">>
Paths == {ScanOrder[i] : i \in 1..Len(ScanOrder)}
Labels == {"invoice", "report"}

\* The label directory a path lies in (label_dir.name).
LabelOf(p) == IF p = "invoice/a.pdf" THEN "invoice" ELSE "report"

NoFile == [content |-> "none", mtime |-> 0]
Exists(f) == f.content # "none"

\* _compute_file_hash: digest of the bytes followed by str(st_mtime).
ComputeFileHash(f) == <<f.content, f.mtime>>

NoRecord == [kind |-> "absent", vec |-> <<0, 0>>, label |-> ""]
NoModel == [kind |-> "absent", vectors |-> << >>, labels |-> << >>]
\* str(None): the value dict.get gives for a key the snapshot does not hold.
NoHash == <<"none", 0>>
\* A snapshot without keys; a path is a key of a snapshot when its value is a hash.
EmptyMap == [p \in Paths |-> NoHash]
NoHashes == [kind |-> "absent", map |-> EmptyMap]
\* self.doc_vectors = None, self.labels = []
NotLoaded == [loaded |-> FALSE, vectors |-> << >>, labels |-> << >>]

VARIABLES
  corpus,     \* path -> file under data_dir (NoFile when absent)
  labelDirs,  \* the label directories that exist under data_dir
  hashFile,   \* file_hashes.json
  embFiles,   \* embeddings/<md5(path)>.joblib, by path
  modelFile,  \* model.joblib
  mem,        \* self.doc_vectors / self.labels of the classifier instance
  prov,       \* history: the path each row of mem / modelFile was built from
  last,       \* history: the last operation and what it returned
  edits       \* history: how often the environment has changed a file

vars == <<corpus, labelDirs, hashFile, embFiles, modelFile, mem, prov, last, edits>>

VARIABLES
  otherFiles,  \* the label directories that hold a file that is no *.pdf
  crash        \* history: a train() that was killed, and what it would have left

diskVars == <<otherFiles, crash>>

\* What train() persists.
Persisted(dirs, hf, recs, mf) ==
  [labelDirs |-> dirs, hashFile |-> hf, embFiles |-> recs, modelFile |-> mf]

NoPoint == [stage |-> "none", done |-> 0, torn |-> "no", evicted |-> {}]
NoCrash ==
  [pc |-> "none", point |-> NoPoint,
   before |-> Persisted({}, NoHashes, [p \in Paths |-> NoRecord], NoModel),
   expected |-> Persisted({}, NoHashes, [p \in Paths |-> NoRecord], NoModel)]

DiskAtRest == otherFiles = {} /\ crash = NoCrash

\* ------------------------------------------------------------------ training
\* json.load of file_hashes.json returned a dict (or the file was absent or
\* unparseable and previous_hashes stayed {}).  A parseable file whose top
\* level is a list, string, number or null is returned as it is.
PrevIsDict(hf) == hf.kind # "nonobject"

\* train(): previous_hashes after the try/except around json.load.
PreviousHashes(hf) == IF hf.kind = "map" THEN hf.map ELSE EmptyMap

\* previous_hashes.keys()
Keys(prev) == {p \in Paths : prev[p] # NoHash}

\* previous_hashes.get(file_path_str)
GetHash(prev, p) == prev[p]

\* Mutant of NeedsEmbedding: the cache is never consulted.
AlwaysEmbed(prev, p, h, rec) == TRUE

\* _load_data: the condition that sends a document to the embedder.
NeedsEmbedding(prev, p, h, rec) == GetHash(prev, p) # h \/ rec.kind = "absent"

\* text.strip() is falsy
IsEmptyText(text) == Strip(text) = << >>

\* _load_data: the try block.  True when joblib.dump is reached.
Embeds(f) == Extractable(f.content) /\ ~IsEmptyText(TextOf(f.content))

\* _load_data: the record at the document's cache path after the try block.
EmbedDoc(p, f, rec) ==
  IF Embeds(f)
  THEN [kind |-> "ok", vec |-> Embed(TextOf(f.content)), label |-> LabelOf(p)]
  ELSE rec

\* The paths the scan sends to the embedder.
ToEmbed(prev) ==
  {p \in Paths : Exists(corpus[p])
                 /\ NeedsEmbedding(prev, p, ComputeFileHash(corpus[p]), embFiles[p])}

\* The "Updated embedding" log lines of one scan.
UpdatedBy(prev) == {p \in ToEmbed(prev) : Embeds(corpus[p])}

\* embeddings/ after the scan loop.
ScanRecords(prev) ==
  [p \in Paths |-> IF p \in ToEmbed(prev) THEN EmbedDoc(p, corpus[p], embFiles[p])
                   ELSE embFiles[p]]

\* _load_data: the documents whose record is loaded and appended, in scan order.
RECURSIVE Loaded(_, _)
Loaded(order, recs) ==
  IF order = << >> THEN << >>
  ELSE (IF Exists(corpus[Head(order)]) /\ recs[Head(order)].kind = "ok"
        THEN <<Head(order)>> ELSE << >>) \o Loaded(Tail(order), recs)

\* _load_data: deleted_files
DeletedFiles(prev) == {p \in Keys(prev) : ~Exists(corpus[p])}

\* The records the eviction loop unlinks.
Unlinked(prev, recs) == {p \in DeletedFiles(prev) : recs[p].kind # "absent"}

\* Mutant of EvictStale: the eviction loop is missing.
KeepStale(recs, deleted) == recs

\* _load_data: unlink the record of every deleted file.
EvictStale(recs, deleted) == [p \in Paths |-> IF p \in deleted THEN NoRecord ELSE recs[p]]

\* Mutant of NewHashes: only the documents that were embedded are listed.
HashesOfEmbedded ==
  [p \in Paths |-> IF Exists(corpus[p]) /\ Embeds(corpus[p])
                   THEN ComputeFileHash(corpus[p]) ELSE NoHash]

\* _load_data: new_hashes
NewHashes == [p \in Paths |-> IF Exists(corpus[p]) THEN ComputeFileHash(corpus[p]) ELSE NoHash]

\* Mutant of Stacked: a label is appended for every document of the scan, also
\* for one whose record is not loaded.
StackedByScan(src, recs) ==
  IF src = << >> THEN NotLoaded
  ELSE [loaded |-> TRUE,
        vectors |-> [i \in 1..Len(src) |-> recs[src[i]].vec],
        labels |-> [i \in 1..Len(src) |-> LabelOf(ScanOrder[i])]]

\* _load_data: self.doc_vectors, self.labels
Stacked(src, recs) ==
  IF src = << >> THEN NotLoaded
  ELSE [loaded |-> TRUE,
        vectors |-> [i \in 1..Len(src) |-> recs[src[i]].vec],
        labels |-> [i \in 1..Len(src) |-> recs[src[i]].label]]

\* Mutant of ShouldPersist: the early return is missing.
AlwaysPersist(m) == TRUE

\* train(): the guard before joblib.dump; false is the early return.
ShouldPersist(m) == ~(~m.loaded \/ m.labels = << >>)

\* train(): rmdir of every label directory without a *.pdf file; rmdir raises
\* OSError, which is logged, on a directory that is not empty.
Pruned ==
  {d \in labelDirs : (\E p \in Paths : Exists(corpus[p]) /\ LabelOf(p) = d)
                     \/ d \in otherFiles}

\* An operation that changes nothing.
Same == [outcome |-> "done", via |-> "none", updated |-> {}, evicted |-> {},
         labelDirs |-> labelDirs, hashFile |-> hashFile, embFiles |-> embFiles,
         modelFile |-> modelFile, mem |-> mem, prov |-> prov]

\* _load_data: the documents of the scan, in order, whose record joblib.load
\* fails on with an error other than EOFError.
RECURSIVE Unreadable(_, _)
Unreadable(order, recs) ==
  IF order = << >> THEN << >>
  ELSE (IF Exists(corpus[Head(order)]) /\ recs[Head(order)].kind = "garbage"
        THEN <<Head(order)>> ELSE << >>) \o Unreadable(Tail(order), recs)

\* The paths the scan reaches before path p, and p.
UpTo(p) ==
  {ScanOrder[i] : i \in {j \in 1..Len(ScanOrder) :
                           \E k \in j..Len(ScanOrder) : ScanOrder[k] = p}}

\* embeddings/ when the scan loop is left at the document at path p.
ScannedUpTo(prev, p) ==
  [q \in Paths |-> IF q \in UpTo(p) THEN ScanRecords(prev)[q] ELSE embFiles[q]]

\* train() as a whole: the state it leaves and whether it returned.
TrainResult ==
  IF ~PrevIsDict(hashFile)
  THEN \* AttributeError at previous_hashes.get / previous_hashes.keys
       [Same EXCEPT !.outcome = "raised", !.via = "train", !.labelDirs = Pruned]
  ELSE IF Unreadable(ScanOrder, ScanRecords(PreviousHashes(hashFile))) # << >>
  THEN \* joblib.load raises out of _load_data at the first such record
       LET prev == PreviousHashes(hashFile)
           at == Head(Unreadable(ScanOrder, ScanRecords(prev)))
       IN [Same EXCEPT !.outcome = "raised", !.via = "train", !.labelDirs = Pruned,
                       !.updated = UpdatedBy(prev) \cap UpTo(at),
                       !.embFiles = ScannedUpTo(prev, at)]
  ELSE LET prev == PreviousHashes(hashFile)
           recs == ScanRecords(prev)
           src  == Loaded(ScanOrder, recs)
           m    == Stacked(src, recs)
           keep == ShouldPersist(m)
       IN [outcome   |-> "done",
           via       |-> "train",
           updated   |-> UpdatedBy(prev),
           evicted   |-> Unlinked(prev, recs),
           labelDirs |-> Pruned,
           embFiles  |-> EvictStale(recs, DeletedFiles(prev)),
           mem       |-> m,
           modelFile |-> IF keep THEN [kind |-> "ok", vectors |-> m.vectors,
                                       labels |-> m.labels]
                         ELSE modelFile,
           hashFile  |-> IF keep THEN [kind |-> "map", map |-> NewHashes] ELSE hashFile,
           prov      |-> [mem |-> src, disk |-> IF keep THEN src ELSE prov.disk]]

\* History: what the operation before this one was, as far as a claim asks:
\* "train" when it ran train() to completion and rows were assembled,
\* "train_zero" when it ran train() to completion and none were.
Before ==
  IF last.trained = "done" THEN (IF mem.loaded THEN "train" ELSE "train_zero") ELSE "none"

\* History: did this operation run train(), and did train() return.
Trained(r) == IF r.via = "train" THEN r.outcome ELSE "no"

NoClass == [label |-> "", confidence |-> 0, success |-> FALSE]

\* History: the record of an operation with result r.
Answer(op, outcome, r, c, th, cl) ==
  [op |-> op, outcome |-> outcome, via |-> r.via, trained |-> Trained(r),
   before |-> Before, updated |-> r.updated, evicted |-> r.evicted, query |-> c,
   threshold |-> th, label |-> cl.label, confidence |-> cl.confidence,
   success |-> cl.success]

\* History: the record of a change made by the environment.
Quiet ==
  [op |-> "env", outcome |-> "done", via |-> "none", trained |-> "no",
   before |-> "none", updated |-> {}, evicted |-> {}, query |-> "none",
   threshold |-> 0, label |-> "", confidence |-> 0, success |-> FALSE]

Apply(r) ==
  /\ labelDirs' = r.labelDirs
  /\ hashFile' = r.hashFile
  /\ embFiles' = r.embFiles
  /\ modelFile' = r.modelFile
  /\ mem' = r.mem
  /\ prov' = r.prov

Train ==
  /\ Apply(TrainResult)
  /\ last' = Answer("train", TrainResult.outcome, TrainResult, "none", 0, NoClass)
  /\ UNCHANGED <<corpus, edits>>

\* ------------------------------------------------------------------ prediction
\* The value numpy gives for 0/0.
NaN == -9999

\* np.linalg.norm of an integer vector whose norm is an integer.
Norm(v) == CHOOSE r \in 0..(v[1] * v[1] + v[2] * v[2]) : r * r = v[1] * v[1] + v[2] * v[2]

\* v / norm(v), in tenths; 0/0 is NaN.
Normalize(v) == [i \in 1..2 |-> IF Norm(v) = 0 THEN NaN ELSE (v[i] * 10) \div Norm(v)]

\* np.dot of two normalised vectors, in hundredths.
Dot(a, b) == IF \E i \in 1..2 : a[i] = NaN \/ b[i] = NaN THEN NaN
             ELSE a[1] * b[1] + a[2] * b[2]

\* predict(): sims
Sims(q, vectors) == [i \in 1..Len(vectors) |-> Dot(Normalize(q), Normalize(vectors[i]))]

\* np.argmax: the first NaN if there is one, else the first maximum.
ArgMax(s) ==
  IF s = << >> THEN 0
  ELSE IF \E i \in 1..Len(s) : s[i] = NaN
       THEN CHOOSE i \in 1..Len(s) : s[i] = NaN /\ \A j \in 1..(i - 1) : s[j] # NaN
       ELSE CHOOSE i \in 1..Len(s) :
              /\ \A j \in 1..Len(s) : s[j] <= s[i]
              /\ \A j \in 1..(i - 1) : s[j] < s[i]

\* Mutant of BelowThreshold: <= in place of <.
BelowOrAtThreshold(score, th) == score # NaN /\ score <= th

\* predict(): best_score < confidence_threshold (false when best_score is NaN)
BelowThreshold(score, th) == score # NaN /\ score < th

\* predict(): the success flag of the Classification.
Success(score, th) == ~BelowThreshold(score, th)

\* Mutant of ModelMissing: the check for a missing model is gone.
NeverMissing(m) == FALSE

\* predict(): self.doc_vectors is None
ModelMissing(m) == ~m.loaded

\* Mutant of RejectsText: the text is compared without strip().
RejectsOnlyEmpty(c) == TextOf(c) = << >>

\* predict(): the first text check, before any model is looked at.
RejectsText(c) == IsEmptyText(TextOf(c))

\* _load_cached_model
LoadCachedModel == [Same EXCEPT !.via = "load",
                                !.mem = [loaded |-> TRUE, vectors |-> modelFile.vectors,
                                         labels |-> modelFile.labels],
                                !.prov = [mem |-> prov.disk, disk |-> prov.disk]]

\* predict(): the block that makes a model available.
EnsureModel ==
  IF modelFile.kind = "absent" \/ hashFile.kind = "absent" THEN TrainResult
  ELSE IF ~mem.loaded \/ mem.labels = << >>
       THEN CASE modelFile.kind = "ok"        -> LoadCachedModel
              [] modelFile.kind = "truncated" -> TrainResult   \* EOFError, retrain
              [] OTHER -> [Same EXCEPT !.outcome = "raised", !.via = "load"]
       ELSE Same

\* predict(): the Classification computed from model m for query content c.
Classify(m, c, th) ==
  LET sims == Sims(Embed(TextOf(c)), m.vectors)
      best == ArgMax(sims)
      score == IF best = 0 THEN NaN ELSE sims[best]
  IN [label |-> IF best = 0 THEN "" ELSE m.labels[best],
      confidence |-> score,
      success |-> Success(score, th)]

\* ------------------------------------------------------------------ boost
\* LabelBoostManager.config after _load_config and sync_with_training_labels:
\* "invoice" is configured in label_config.json, "report" is the entry the
\* synchronisation adds for a training label without one.
ManagerConfig ==
  [invoice |-> [boost_phrases |-> << <<"i", "n">> >>, boost |-> 6],
   report  |-> [boost_phrases |-> << >>, boost |-> -100]]

\* boost_score: the value of config.get("boost", 0.05) for an entry without one.
DefaultBoost == 5

\* LabelBoostManager.get: self.config.get(label, {})
ConfigGet(label) ==
  IF label \in DOMAIN ManagerConfig THEN ManagerConfig[label] ELSE [k \in {} |-> 0]

\* LabelBoostManager.boost_score
BoostScore(label, text) ==
  LET config == ConfigGet(label)
      phrases == IF "boost_phrases" \in DOMAIN config THEN config.boost_phrases ELSE << >>
      boost == IF "boost" \in DOMAIN config THEN config.boost ELSE DefaultBoost
  IN IF \E i \in 1..Len(phrases) : Contains(Lower(text), Lower(phrases[i]))
     THEN boost ELSE 0

\* predict(pdf_path, confidence_threshold): the empty-text and extraction checks,
\* the model block, then the scoring.  The second extract_text call returns what
\* the first returned.
Predict(c, th) ==
  /\ UNCHANGED <<corpus, edits>>
  /\ IF ~Extractable(c)
     THEN /\ Apply(Same)
          /\ last' = Answer("predict", "extract_failed", Same, c, 0, NoClass)
     ELSE IF RejectsText(c)
     THEN /\ Apply(Same)
          /\ last' = Answer("predict", "empty", Same, c, 0, NoClass)
     ELSE LET e == EnsureModel IN
          /\ Apply(e)
          /\ IF e.outcome # "done"
             THEN last' = Answer("predict", "raised", e, c, 0, NoClass)
             ELSE IF ModelMissing(e.mem)
             THEN last' = Answer("predict", "not_trained", e, c, 0, NoClass)
             ELSE last' = Answer("predict", "classified", e, c, th,
                                 Classify(e.mem, c, th))

\* ------------------------------------------------------------------ environment
\* A user copies a PDF into a label directory.
AddDoc(p, c) ==
  /\ ~Exists(corpus[p])
  /\ corpus' = [corpus EXCEPT ![p] = [content |-> c, mtime |-> edits + 1]]
  /\ labelDirs' = labelDirs \cup {LabelOf(p)}
  /\ last' = Quiet
  /\ edits < MaxEdits
  /\ edits' = edits + 1
  /\ UNCHANGED <<hashFile, embFiles, modelFile, mem, prov>>

\* A user rewrites a training document (with the content it had: touches it);
\* the file gets a new modification time.
ModifyDoc(p, c) ==
  /\ Exists(corpus[p])
  /\ corpus' = [corpus EXCEPT ![p] = [content |-> c, mtime |-> edits + 1]]
  /\ last' = Quiet
  /\ edits < MaxEdits
  /\ edits' = edits + 1
  /\ UNCHANGED <<labelDirs, hashFile, embFiles, modelFile, mem, prov>>

\* A user removes a training document; its directory stays.
DeleteDoc(p) ==
  /\ Exists(corpus[p])
  /\ corpus' = [corpus EXCEPT ![p] = NoFile]
  /\ last' = Quiet
  /\ edits < MaxEdits
  /\ edits' = edits + 1
  /\ UNCHANGED <<labelDirs, hashFile, embFiles, modelFile, mem, prov>>

\* file_hashes.json is overwritten with text that is no path-to-hash mapping:
\* "invalid" does not parse (it may be empty), "nonobject" parses to a
\* list, string, number, boolean or null.
CorruptSnapshot(k) ==
  /\ hashFile.kind # "absent"
  /\ hashFile' = [kind |-> k, map |-> EmptyMap]
  /\ last' = Quiet
  /\ edits < MaxEdits
  /\ edits' = edits + 1
  /\ UNCHANGED <<corpus, labelDirs, embFiles, modelFile, mem, prov>>

\* model.joblib is damaged: "truncated" makes joblib.load raise EOFError,
\* "garbage" makes it raise another error.
CorruptModel(k) ==
  /\ modelFile.kind # "absent"
  /\ modelFile' = [kind |-> k, vectors |-> << >>, labels |-> << >>]
  /\ prov' = [prov EXCEPT !.disk = << >>]
  /\ last' = Quiet
  /\ edits < MaxEdits
  /\ edits' = edits + 1
  /\ UNCHANGED <<corpus, labelDirs, hashFile, embFiles, mem>>

\* PDFSemanticClassifier(data_dir): a new instance over the same cache.
NewInstance ==
  /\ mem' = NotLoaded
  /\ prov' = [prov EXCEPT !.mem = << >>]
  /\ last' = Quiet
  /\ UNCHANGED <<corpus, labelDirs, hashFile, embFiles, modelFile, edits>>

\* The confidence thresholds predict() is called with.
Thresholds == {75, 80}

\* ------------------------------------------------------------------ label records
\* State of the parts of the package around the classifier.  Each part is
\* exercised by a specification of its own; the other parts are then at rest.
VARIABLES
  raw,        \* a dictionary as json.load returns it, handed to LabelConfig
  cfg,        \* the LabelConfig that LabelConfig.from_dict(raw) returned
  checked     \* what LabelConfig.validate_field returned or raised

labelVars == <<raw, cfg, checked>>

\* A JSON value: its Python type t, its number n in hundredths, and l, the
\* list of its strings (a str is held as the one string of l).  A string is a
\* sequence of atoms: words, "," and " ".
JNull == [t |-> "null", n |-> 0, l |-> << >>]
JFloat(x) == [t |-> "float", n |-> x, l |-> << >>]
JInt(x) == [t |-> "int", n |-> x * 100, l |-> << >>]
JBool(b) == [t |-> "bool", n |-> (IF b THEN 100 ELSE 0), l |-> << >>]
JNaN == [t |-> "nan", n |-> 0, l |-> << >>]
JStr(str) == [t |-> "str", n |-> 0, l |-> <<str>>]
JList(strs) == [t |-> "list", n |-> 0, l |-> strs]
\* A list with an entry that is no string (the strings of it are in l).
JMixed(strs) == [t |-> "mixedlist", n |-> 0, l |-> strs]

\* SCHEMA: the field names, in order.
Fields == <<"boost_phrases", "boost", "final_name_pattern", "devonthink_group",
            "preferred_context", "minimum_parts">>

NoDict == [f \in {Fields[i] : i \in 1..Len(Fields)} |-> JNull]
NoConfig == [kind |-> "none", fields |-> NoDict]
NoCheck == [field |-> "", outcome |-> "none", value |-> JNull]

LabelsAtRest == raw = NoDict /\ cfg = NoConfig /\ checked = NoCheck

\* ------------------------------------------------------------------ configuration store
VARIABLES
  configFile,    \* CONFIG.label_config_path (label_config.json)
  trainingDirs,  \* the label directories under CONFIG.training_data_dir
  manager,       \* a LabelBoostManager: whether it is built, and its config
  cli,           \* a LabelBoostCLI: whether it is built, and its config
  storeLast      \* history: the last operation on the store and its result

storeVars == <<configFile, trainingDirs, manager, cli, storeLast>>

\* The value of one label in label_config.json or in a config dictionary:
\* none, a dictionary with the keys it holds (fields gives None for the
\* others, as dict.get does), a LabelConfig, or a value that is no dictionary.
NoEntry == [kind |-> "none", keys |-> {}, fields |-> NoDict]
EmptyDict == [kind |-> "dict", keys |-> {}, fields |-> NoDict]
NotADict == [kind |-> "number", keys |-> {}, fields |-> NoDict]
NoEntries == [l \in Labels |-> NoEntry]

NoStore == [built |-> FALSE, config |-> NoEntries]
NoStoreOp == [op |-> "none", created |-> {}, got |-> NoEntry]

StoreAtRest ==
  /\ configFile = [kind |-> "absent", entries |-> NoEntries]
  /\ trainingDirs = {}
  /\ manager = NoStore
  /\ cli = NoStore
  /\ storeLast = NoStoreOp

\* ------------------------------------------------------------------ processed file
VARIABLES
  pdfContent,  \* what the PDF handed to PdfProcess holds
  pdfAt,       \* where that PDF is
  sidecarAt,   \* where its <name>.pdf.meta.json is (NoPlace when there is none)
  sidecar,     \* the dictionary in the sidecar file
  proc,        \* the PdfProcess: its position and the exception it raised
  fileLast     \* history: the last sidecar operation and what it returned

fileVars == <<pdfContent, pdfAt, sidecarAt, sidecar, proc, fileLast>>

\* A place in the file system: directory, stem of the name, and the counter
\* appended to the stem (0 when none is).
Original == [dir |-> "inbox", stem |-> "scan", n |-> 0]
NoPlace == [dir |-> "", stem |-> "", n |-> 0]

\* The field names that occur in a sidecar or in a call.
SidecarNames ==
  {"/Classification", "/classification", "/confidence", "/preferred_context",
   "/minimum_parts", "minimum_parts", "/devonthink_group", "/original_filename",
   "/original_date", "/sha256"}

\* A key the dictionary does not hold.
Missing == [t |-> "missing", n |-> 0, l |-> << >>]
NoMetadata == [k \in SidecarNames |-> Missing]

NoProcess == [pc |-> "none", error |-> "none", rename |-> FALSE, taken |-> {}]
NoFileOp == [op |-> "none", name |-> "", arg |-> JNull, overwrite |-> FALSE,
             result |-> JNull]

FilesAtRest ==
  /\ pdfContent = "none"
  /\ pdfAt = NoPlace
  /\ sidecarAt = NoPlace
  /\ sidecar = NoMetadata
  /\ proc = NoProcess
  /\ fileLast = NoFileOp

\* A classifier is constructed over a data_dir that holds any documents, with
\* an empty cache directory.
Init ==
  /\ corpus \in [Paths -> {NoFile} \cup [content : Contents, mtime : {0}]]
  /\ labelDirs = {LabelOf(p) : p \in {q \in Paths : Exists(corpus[q])}}
  /\ hashFile = NoHashes
  /\ embFiles = [p \in Paths |-> NoRecord]
  /\ modelFile = NoModel
  /\ mem = NotLoaded
  /\ prov = [mem |-> << >>, disk |-> << >>]
  /\ last = Quiet
  /\ edits = 0
  /\ LabelsAtRest
  /\ DiskAtRest
  /\ StoreAtRest
  /\ FilesAtRest

\* The caller has taken the result of predict(); the next operation starts.
Return ==
  /\ last.op = "predict"
  /\ last' = Quiet
  /\ UNCHANGED <<corpus, labelDirs, hashFile, embFiles, modelFile, mem, prov, edits>>

\* One caller, one operation at a time: nothing starts before predict() has
\* returned to it.
Idle == last.op # "predict"

\* The parts around the classifier, which no classifier operation touches.
others == <<labelVars, storeVars, fileVars, diskVars>>

Next ==
  \/ Idle /\ (\E p \in Paths, c \in Contents : AddDoc(p, c)) /\ UNCHANGED others
  \/ Idle /\ (\E p \in Paths, c \in Contents : ModifyDoc(p, c)) /\ UNCHANGED others
  \/ Idle /\ (\E p \in Paths : DeleteDoc(p)) /\ UNCHANGED others
  \/ Idle /\ (\E k \in {"invalid", "nonobject"} : CorruptSnapshot(k)) /\ UNCHANGED others
  \/ Idle /\ (\E k \in {"truncated", "garbage"} : CorruptModel(k)) /\ UNCHANGED others
  \/ Idle /\ NewInstance /\ UNCHANGED others
  \/ Idle /\ Train /\ UNCHANGED others
  \/ Idle /\ (\E c \in QueryContents, th \in Thresholds : Predict(c, th)) /\ UNCHANGED others
  \/ Return /\ UNCHANGED others

Spec == Init /\ [][Next]_vars

\* The classifier before its first operation, over an empty data_dir.
ClassifierAtRest ==
  /\ corpus = [p \in Paths |-> NoFile]
  /\ labelDirs = {}
  /\ hashFile = NoHashes
  /\ embFiles = [p \in Paths |-> NoRecord]
  /\ modelFile = NoModel
  /\ mem = NotLoaded
  /\ prov = [mem |-> << >>, disk |-> << >>]
  /\ last = Quiet
  /\ edits = 0

\* ------------------------------------------------------------------ LabelConfig
\* A string of one word.
Word(w) == <<w>>

\* _ALLOWED_MINIMUM_PARTS and _DEFAULT_MINIMUM_PARTS
AllowedMinimumParts == {Word("day"), Word("month"), Word("year")}
DefaultMinimumParts == <<Word("day"), Word("month"), Word("year")>>

\* isinstance(x, (int, float)): bool is a subclass of int, NaN is a float.
IsNumber(v) == v.t \in {"bool", "int", "float", "nan"}

\* x < k, x > k and x >= k on Python numbers: false when x is NaN.
Less(v, k) == v.t # "nan" /\ v.n < k
Greater(v, k) == v.t # "nan" /\ v.n > k
AtLeast(v, k) == v.t # "nan" /\ v.n >= k

IsListOfStr(v) == v.t = "list"
IsOptionalStr(v) == v.t \in {"null", "str"}
IsAllowedPart(str) == str \in AllowedMinimumParts
IsValidParts(v) == v.t = "list" /\ \A i \in 1..Len(v.l) : IsAllowedPart(v.l[i])

ListFields == {"boost_phrases", "preferred_context"}
FieldNames == {Fields[i] : i \in 1..Len(Fields)}

\* SCHEMA[field]["validate"](value)
Validate(field, v) ==
  CASE field \in ListFields     -> IsListOfStr(v)
    [] field = "boost"          -> IsNumber(v)
    [] field = "minimum_parts"  -> IsValidParts(v)
    [] OTHER                    -> IsOptionalStr(v)

\* SCHEMA[field]["default"], called when it is callable.
Default(field) ==
  CASE field \in ListFields     -> JList(<< >>)
    [] field = "boost"          -> JFloat(-100)
    [] field = "minimum_parts"  -> JList(DefaultMinimumParts)
    [] OTHER                    -> JNull

\* SCHEMA["boost"]["clamp_max"]
ClampMax == 7

\* from_dict: the clamping of boost.
ClampBoost(v) ==
  IF ~IsNumber(v) THEN v
  ELSE IF Less(v, 0) THEN JFloat(-100)
  ELSE IF Greater(v, ClampMax) THEN JFloat(ClampMax)
  ELSE v

\* from_dict: the filtering of minimum_parts.
FilterParts(v) ==
  IF v.t # "list" THEN v
  ELSE LET kept == SelectSeq(v.l, IsAllowedPart)
       IN IF kept = << >> THEN JList(DefaultMinimumParts) ELSE JList(kept)

\* from_dict: one pass of the loop over SCHEMA.  raw.get(field, None) gives
\* None for a missing key, which is the JNull a raw dictionary holds for it.
FromDictField(field, v) ==
  LET valid == IF Validate(field, v) THEN v ELSE Default(field)
      clamped == IF field = "boost" THEN ClampBoost(valid) ELSE valid
  IN IF field = "minimum_parts" THEN FilterParts(clamped) ELSE clamped

\* LabelConfig.from_dict
FromDict(r) ==
  [kind |-> "LabelConfig", fields |-> [f \in FieldNames |-> FromDictField(f, r[f])]]

\* LabelConfig.is_complete
IsComplete(c) ==
  /\ c.fields.boost_phrases.t \in {"list", "mixedlist"}
  /\ c.fields.boost.t \in {"float", "nan"}
  /\ AtLeast(c.fields.boost, 0)

\* LabelConfig.matches_phrase
MatchesPhrase(c, text) ==
  \E i \in 1..Len(c.fields.boost_phrases.l) :
    Contains(Lower(text), Lower(c.fields.boost_phrases.l[i]))

\* LabelConfig.get_boost_if_matched
GetBoostIfMatched(c, text) == IF MatchesPhrase(c, text) THEN c.fields.boost ELSE JFloat(0)

\* The texts scored against a label's phrases.
Texts == {<<"total", " ", "due">>, <<"invoice", " ", "number", " ", "7">>, <<"letter">>}

\* str.split(","): the pieces of a string between its commas.
RECURSIVE Split(_)
Split(str) ==
  IF \A i \in 1..Len(str) : str[i] # ","
  THEN <<str>>
  ELSE LET i == CHOOSE k \in 1..Len(str) :
                  str[k] = "," /\ \A j \in 1..(k - 1) : str[j] # ","
       IN <<SubSeq(str, 1, i - 1)>> \o Split(SubSeq(str, i + 1, Len(str)))

NonEmpty(str) == str # << >>

\* [v.strip() for v in value.split(",") if v.strip()]
SplitTrim(str) ==
  LET parts == Split(str)
  IN SelectSeq([i \in 1..Len(parts) |-> Strip(parts[i])], NonEmpty)

\* LabelConfig.validate_field
ValidateField(field, v) ==
  IF field \notin FieldNames
  THEN [field |-> field, outcome |-> "ValueError", value |-> JNull]
  ELSE LET w == IF v.t = "str" /\ field \in ListFields \cup {"minimum_parts"}
                THEN JList(SplitTrim(v.l[1])) ELSE v
       IN IF Validate(field, w)
          THEN [field |-> field, outcome |-> "ok", value |-> w]
          ELSE [field |-> field, outcome |-> "ValueError", value |-> JNull]

\* The values a label_config.json entry may hold for each field.
Boosts ==
  {JNull, JStr(Word("x")), JFloat(-1000), JFloat(-1), JInt(-1), JInt(0), JFloat(0),
   JFloat(3), JFloat(7), JFloat(8), JFloat(50), JInt(1), JBool(TRUE), JBool(FALSE), JNaN}
Phrases ==
  {JNull, JList(<< >>), JList(<<Word("total"), <<"invoice", " ", "number">> >>),
   JStr(<<"total", ",", " ", "invoice", " ", "number">>), JStr(<<" ", ",", ",", "a">>),
   JMixed(<<Word("total")>>)}
Parts ==
  {JNull, JList(<< >>), JList(<<Word("month"), Word("year")>>),
   JList(<<Word("month"), Word("day"), Word("foo")>>), JList(<<Word("unknown")>>),
   JStr(<<"month", ",", "year">>)}
Contexts == {JNull, JList(<<Word("header")>>), JStr(<<"header", ",", "footer">>)}
Patterns == {JNull, JStr(Word("invoice_{date}")), JInt(1)}

Raws ==
  [boost_phrases : Phrases, boost : Boosts, final_name_pattern : Patterns,
   devonthink_group : {JNull}, preferred_context : Contexts, minimum_parts : Parts]

\* A record of label_config.json is loaded.
LoadRecord ==
  /\ cfg.kind = "none"
  /\ cfg' = FromDict(raw)
  /\ UNCHANGED <<raw, checked, vars, storeVars, fileVars, diskVars>>

\* One field of it is validated on its own (an edit of the field).
CheckField(field) ==
  /\ checked.outcome = "none"
  /\ checked' = ValidateField(field, IF field \in FieldNames THEN raw[field] ELSE JNull)
  /\ UNCHANGED <<raw, cfg, vars, storeVars, fileVars, diskVars>>

ConfigInit ==
  /\ ClassifierAtRest
  /\ StoreAtRest
  /\ FilesAtRest
  /\ DiskAtRest
  /\ raw \in Raws
  /\ cfg = NoConfig
  /\ checked = NoCheck

ConfigNext ==
  \/ LoadRecord
  \/ \E field \in FieldNames \cup {"colour"} : CheckField(field)

ConfigSpec == ConfigInit /\ [][ConfigNext]_<<vars, labelVars, storeVars, fileVars, diskVars>>

\* ------------------------------------------------------------------ LabelBoostManager
\* A dictionary with the given keys and values.
Dict(keys, fields) ==
  [kind |-> "dict", keys |-> keys,
   fields |-> [f \in FieldNames |-> IF f \in keys THEN fields[f] ELSE JNull]]

\* _validate_config: the keys of one entry that are kept.
ValidKeys(e) ==
  {f \in FieldNames :
     CASE f = "boost_phrases"     -> e.fields[f].t \in {"list", "mixedlist"}
       [] f = "boost"             -> IsNumber(e.fields[f])
       [] f = "preferred_context" -> e.fields[f].t = "list"
       [] f = "minimum_parts"     -> FALSE
       [] OTHER                   -> e.fields[f].t \in {"null", "str"}}

\* _validate_config: the value kept for a key.
ValidValue(f, v) ==
  CASE f = "boost_phrases" -> JList(v.l)
    [] f = "boost"         -> (IF v.t = "nan" THEN JNaN ELSE JFloat(v.n))
    [] OTHER               -> v

\* _validate_config: one entry of the file; none when it is dropped.
ValidateEntry(e) ==
  IF e.kind # "dict" \/ ValidKeys(e) = {} THEN NoEntry
  ELSE Dict(ValidKeys(e), [f \in FieldNames |-> ValidValue(f, e.fields[f])])

\* LabelBoostManager._load_config
ManagerLoad(file) ==
  IF file.kind = "dict" THEN [l \in Labels |-> ValidateEntry(file.entries[l])]
  ELSE NoEntries

\* config.keys()
ConfigKeys(config) == {l \in Labels : config[l].kind # "none"}

\* LabelBoostManager.missing_labels
MissingLabels(config) == trainingDirs \ ConfigKeys(config)

\* sync_with_training_labels: the entry made for a label without one.
ManagerDefault ==
  Dict({"boost_phrases", "boost", "final_name_pattern", "devonthink_group"},
       [NoDict EXCEPT !.boost_phrases = JList(<< >>), !.boost = JFloat(-100)])

\* LabelBoostManager.sync_with_training_labels
SyncWithTrainingLabels(config) ==
  [l \in Labels |-> IF l \in MissingLabels(config) THEN ManagerDefault ELSE config[l]]

\* LabelBoostManager.is_complete
ManagerIsComplete(config, label) ==
  LET entry == config[label]
  IN /\ entry.kind = "dict"
     /\ entry.fields.boost_phrases.t \in {"list", "mixedlist"}
     /\ entry.fields.boost.t \in {"float", "nan"}
     /\ AtLeast(entry.fields.boost, 0)
     /\ entry.fields.final_name_pattern.t \in {"str", "null"}
     /\ entry.fields.devonthink_group.t \in {"str", "null"}

\* LabelBoostManager.get: self.config.get(label, {})
ManagerGet(config, label) == IF config[label].kind = "none" THEN EmptyDict ELSE config[label]

\* LabelBoostManager(): _load_config, then sync_with_training_labels.
ManagerInit ==
  /\ manager' = [built |-> TRUE, config |-> SyncWithTrainingLabels(ManagerLoad(configFile))]
  /\ storeLast' = [op |-> "manager_sync", created |-> MissingLabels(ManagerLoad(configFile)),
                    got |-> NoEntry]
  /\ UNCHANGED <<configFile, trainingDirs, cli>>

ManagerSync ==
  /\ manager.built
  /\ manager' = [manager EXCEPT !.config = SyncWithTrainingLabels(manager.config)]
  /\ storeLast' = [op |-> "manager_sync", created |-> MissingLabels(manager.config),
                    got |-> NoEntry]
  /\ UNCHANGED <<configFile, trainingDirs, cli>>

\* manager.get(label), called by PdfProcess
ManagerRead(label) ==
  /\ manager.built
  /\ storeLast' = [op |-> "get", created |-> {}, got |-> ManagerGet(manager.config, label)]
  /\ UNCHANGED <<configFile, trainingDirs, manager, cli>>

\* LabelBoostManager.save
ManagerSave ==
  /\ manager.built
  /\ configFile' = [kind |-> "dict", entries |-> manager.config]
  /\ storeLast' = [op |-> "save", created |-> {}, got |-> NoEntry]
  /\ UNCHANGED <<trainingDirs, manager, cli>>

\* ------------------------------------------------------------------ LabelBoostCLI
\* LabelBoostCLI._load_config: the file as json.load returns it.
CliLoad(file) == IF file.kind = "dict" THEN file.entries ELSE NoEntries

\* _sync_labels: the entry made for a label without one.
CliDefault ==
  Dict({"boost_phrases", "boost", "final_name_pattern", "devonthink_group"},
       [NoDict EXCEPT !.boost_phrases = JList(<< >>), !.boost = JFloat(0)])

\* REQUIRED_FIELDS
RequiredFields == {"boost_phrases", "boost", "final_name_pattern", "devonthink_group"}

\* LabelBoostCLI._is_complete, for an entry that is a dictionary
CliIsComplete(config, label) ==
  LET entry == config[label]
  IN \A f \in RequiredFields :
       /\ f \in entry.keys
       /\ entry.fields[f].t \in {"null", "str", "list", "mixedlist", "float", "nan"}

\* _sync_labels; confirm is the user's answer to the removal of stale entries.
SyncLabels(config, confirm) ==
  [l \in Labels |->
     IF l \in trainingDirs
     THEN (IF config[l].kind = "none" THEN CliDefault ELSE config[l])
     ELSE (IF confirm THEN NoEntry ELSE config[l])]

\* LabelBoostCLI(): _load_config, then _sync_labels.
CliInit(confirm) ==
  /\ cli' = [built |-> TRUE, config |-> SyncLabels(CliLoad(configFile), confirm)]
  /\ storeLast' = [op |-> "cli_sync", created |-> trainingDirs \ ConfigKeys(CliLoad(configFile)),
                    got |-> NoEntry]
  /\ UNCHANGED <<configFile, trainingDirs, manager>>

\* LabelBoostCLI._save_config
CliSave ==
  /\ cli.built
  /\ configFile' = [kind |-> "dict", entries |-> cli.config]
  /\ storeLast' = [op |-> "save", created |-> {}, got |-> NoEntry]
  /\ UNCHANGED <<trainingDirs, manager, cli>>

\* A label directory is made under the training directory.
MakeLabelDir(label) ==
  /\ label \notin trainingDirs
  /\ trainingDirs' = trainingDirs \cup {label}
  /\ storeLast' = NoStoreOp
  /\ UNCHANGED <<configFile, manager, cli>>

\* The entries label_config.json may hold for a label.
FixtureEntry ==
  Dict(FieldNames,
       [boost_phrases |-> JList(<<Word("total"), <<"invoice", " ", "number">> >>),
        boost |-> JFloat(6),
        final_name_pattern |-> JStr(Word("invoice_{date}")),
        devonthink_group |-> JStr(Word("Finances/Invoices")),
        preferred_context |-> JList(<<Word("header")>>),
        minimum_parts |-> JList(<<Word("month"), Word("year")>>)])
FileEntries ==
  {NoEntry, NotADict, EmptyDict, FixtureEntry,
   Dict({"boost", "boost_phrases"},
        [NoDict EXCEPT !.boost = JFloat(50),
                       !.boost_phrases = JStr(<<"total", ",", " ", "invoice">>)]),
   Dict({"boost", "final_name_pattern", "devonthink_group"},
        [NoDict EXCEPT !.boost = JInt(1), !.final_name_pattern = JInt(1),
                       !.devonthink_group = JInt(1)])}

StoreInit ==
  /\ ClassifierAtRest
  /\ LabelsAtRest
  /\ DiskAtRest
  /\ FilesAtRest
  /\ configFile \in [kind : {"dict"}, entries : [Labels -> FileEntries]]
                    \cup [kind : {"absent", "invalid"}, entries : {NoEntries}]
  /\ trainingDirs \in SUBSET Labels
  /\ manager = NoStore
  /\ cli = NoStore
  /\ storeLast = NoStoreOp

StoreNext ==
  \/ ManagerInit /\ UNCHANGED <<vars, labelVars, fileVars, diskVars>>
  \/ ManagerSync /\ UNCHANGED <<vars, labelVars, fileVars, diskVars>>
  \/ (\E label \in Labels : ManagerRead(label)) /\ UNCHANGED <<vars, labelVars, fileVars, diskVars>>
  \/ ManagerSave /\ UNCHANGED <<vars, labelVars, fileVars, diskVars>>
  \/ (\E confirm \in BOOLEAN : CliInit(confirm)) /\ UNCHANGED <<vars, labelVars, fileVars, diskVars>>
  \/ CliSave /\ UNCHANGED <<vars, labelVars, fileVars, diskVars>>
  \/ (\E label \in Labels : MakeLabelDir(label)) /\ UNCHANGED <<vars, labelVars, fileVars, diskVars>>

StoreSpec == StoreInit /\ [][StoreNext]_<<vars, labelVars, storeVars, fileVars, diskVars>>

\* ------------------------------------------------------------------ PDFMetadataManager
\* str.lower() on a field name.
LowerName(name) == IF name = "/Classification" THEN "/classification" ELSE name

\* sidecar_path.exists(), for the manager of the PDF where it is now.
SidecarExists == sidecarAt # NoPlace /\ sidecarAt = pdfAt

\* _load_metadata: the dictionary of the sidecar, {} without one.
LoadMetadata == IF SidecarExists THEN sidecar ELSE NoMetadata

\* dict.get(key): None for a key the dictionary does not hold.
Get(metadata, key) == IF metadata[key] = Missing THEN JNull ELSE metadata[key]

\* _calculate_pdf_hash
CalculatePdfHash == JStr(<<"sha256", pdfContent>>)

\* _save_metadata: the dictionary written, with the hash of the PDF.
SaveMetadata(metadata) == [metadata EXCEPT !["/sha256"] = CalculatePdfHash]

\* write_custom_field: the value made JSON-safe.
Coerce(value) ==
  CASE value.t \in {"float", "nan"} -> value
    [] value.t \in {"int", "bool"}  -> [t |-> "int", n |-> value.n, l |-> << >>]
    [] value.t \in {"list", "mixedlist"} -> JList(value.l)
    [] value.t = "null"             -> JStr(Word("None"))
    [] OTHER                        -> value

\* write_custom_field: the dictionary after the assignment.
Stored(metadata, name, value) == [metadata EXCEPT ![LowerName(name)] = Coerce(value)]

\* write_custom_field: whether it writes, and the dictionary it saves.
WriteField(metadata, name, value, overwrite) ==
  IF ~overwrite /\ metadata[name] # Missing
  THEN [written |-> FALSE, metadata |-> metadata]
  ELSE [written |-> TRUE, metadata |-> SaveMetadata(Stored(metadata, name, value))]

\* verify_pdf_hash
VerifyPdfHash(metadata) ==
  LET stored == Get(metadata, "/sha256")
  IN IF stored = JNull \/ stored = JStr(<< >>) THEN FALSE ELSE stored = CalculatePdfHash

\* write_custom_field(field_name, value, overwrite)
WriteCustomField(name, value, overwrite) ==
  LET w == WriteField(LoadMetadata, name, value, overwrite) IN
  /\ pdfAt = Original
  /\ sidecar' = IF w.written THEN w.metadata ELSE sidecar
  /\ sidecarAt' = IF w.written THEN pdfAt ELSE sidecarAt
  /\ fileLast' = [op |-> "write", name |-> name, arg |-> value, overwrite |-> overwrite,
                  result |-> JBool(w.written)]
  /\ UNCHANGED <<pdfContent, pdfAt, proc>>

\* read_custom_field(field_name)
ReadCustomField(name) ==
  /\ pdfAt = Original
  /\ fileLast' = [op |-> "read", name |-> name, arg |-> JNull, overwrite |-> FALSE,
                  result |-> Get(LoadMetadata, name)]
  /\ UNCHANGED <<pdfContent, pdfAt, sidecarAt, sidecar, proc>>

\* delete_custom_field(field_name)
DeleteCustomField(name) ==
  LET metadata == LoadMetadata
      found == metadata[name] # Missing IN
  /\ pdfAt = Original
  /\ sidecar' = IF found THEN SaveMetadata([metadata EXCEPT ![name] = Missing]) ELSE sidecar
  /\ sidecarAt' = IF found THEN pdfAt ELSE sidecarAt
  /\ fileLast' = [op |-> "delete", name |-> name, arg |-> JNull, overwrite |-> FALSE,
                  result |-> JNull]
  /\ UNCHANGED <<pdfContent, pdfAt, proc>>

\* pdf_date.load_minimum_parts(pdf_file)
LoadMinimumParts ==
  /\ pdfAt = Original
  /\ fileLast' = [op |-> "load_minimum_parts", name |-> "", arg |-> JNull,
                  overwrite |-> FALSE,
                  result |-> IF SidecarExists /\ sidecar["minimum_parts"] # Missing
                             THEN sidecar["minimum_parts"]
                             ELSE JList(DefaultMinimumParts)]
  /\ UNCHANGED <<pdfContent, pdfAt, sidecarAt, sidecar, proc>>

\* The field names and values the callers pass.
CallNames == {"/Classification", "/classification", "/minimum_parts", "minimum_parts"}
CallValues == {JStr(Word("invoice")), JFloat(80), JList(<<Word("month"), Word("year")>>)}

\* A PDF without a sidecar.
SidecarInit ==
  /\ ClassifierAtRest
  /\ LabelsAtRest
  /\ DiskAtRest
  /\ StoreAtRest
  /\ pdfContent = "inv"
  /\ pdfAt = Original
  /\ sidecarAt = NoPlace
  /\ sidecar = NoMetadata
  /\ proc = NoProcess
  /\ fileLast = NoFileOp

SidecarNext ==
  \/ (\E name \in CallNames, value \in CallValues, overwrite \in BOOLEAN :
        WriteCustomField(name, value, overwrite)) /\ UNCHANGED <<vars, labelVars, storeVars, diskVars>>
  \/ (\E name \in CallNames : ReadCustomField(name)) /\ UNCHANGED <<vars, labelVars, storeVars, diskVars>>
  \/ (\E name \in CallNames : DeleteCustomField(name)) /\ UNCHANGED <<vars, labelVars, storeVars, diskVars>>
  \/ LoadMinimumParts /\ UNCHANGED <<vars, labelVars, storeVars, diskVars>>

SidecarSpec == SidecarInit /\ [][SidecarNext]_<<vars, labelVars, storeVars, fileVars, diskVars>>

\* ------------------------------------------------------------------ PdfProcess
\* The PDFs handed to PdfProcess.  "broken" is a file PdfReader opens and
\* pdfminer rejects (a password-protected one); "garbled" is one PdfReader
\* rejects as well.
ProcessContents == QueryContents \cup {"garbled"}

\* PDFMetadataManager.__init__: PdfReader(str(input_path)) does not raise.
PypdfReads(c) == c # "garbled"

\* str(exc) of the exception pdfminer raises on "broken" (PDFPasswordIncorrect
\* carries no message).
ExtractError == << >>

\* str(err) of the ValueError predict() raises.
ValueErrorText(outcome) ==
  IF outcome = "empty"
  THEN <<"P", "D", "F", " ", "text", " ", "is", " ", "empty", ".">>
  ELSE <<"F", "ailed", " ", "to", " ", "extract", " ", "P", "D", "F", ":", " ">>
       \o ExtractError

\* PdfProcess.predict: "empty" in str(err).lower()
QueuesForOcr(text) == Contains(Lower(text), <<"empty">>)

\* The names <stem>.pdf (counter 0) and <stem>_<k>.pdf (counter k) that may
\* exist in the destination directory.
MaxTaken == 2

\* while dest.exists(): the first counter from n on whose name is free.
RECURSIVE FirstFree(_, _)
FirstFree(taken, n) == IF n \notin taken THEN n ELSE FirstFree(taken, n + 1)

\* Mutant of UniqueDest: the name is tested once (if in place of while).
TestedOnce(dir, stem, taken) ==
  [dir |-> dir, stem |-> stem, n |-> IF 0 \in taken THEN 1 ELSE 0]

\* The unique name in directory dir: the counter loop of predict() and of
\* take_action(), where taken holds the counters of the names that exist there.
UniqueDest(dir, stem, taken) == [dir |-> dir, stem |-> stem, n |-> FirstFree(taken, 0)]

\* bool(value) of an attribute of a label's configuration.
Truthy(value) ==
  CASE value.t \in {"list", "mixedlist", "str"} -> value.l # << >> /\ value.l # << << >> >>
    [] value.t \in {"int", "float", "bool"}     -> value.n # 0
    [] value.t = "nan"                          -> TRUE
    [] OTHER                                    -> FALSE

\* config.<name>: attribute access works on a LabelConfig, not on a dict.
HasAttributes(config) == config.kind = "LabelConfig"

\* LabelBoostManager().get(label)
BoostConfig(label) ==
  ManagerGet(SyncWithTrainingLabels(ManagerLoad(configFile)), label)

\* What a step of PdfProcess leaves: its position, the exception raised, and
\* the files.
Outcome(pc, error, place, sidecarPlace, metadata) ==
  [pc |-> pc, error |-> error, pdfAt |-> place, sidecarAt |-> sidecarPlace,
   sidecar |-> metadata]

\* rename_with_sidecar(dest), for a sidecar that holds metadata.
RenameWithSidecar(dest, metadata) ==
  IF SidecarExists
  THEN IF VerifyPdfHash(metadata)
       THEN Outcome("done", "none", dest, dest, metadata)
       ELSE Outcome("raised", "ValueError", pdfAt, sidecarAt, metadata)
  ELSE Outcome("done", "none", dest, sidecarAt, metadata)

\* take_action(prediction, rename, output_path)
TakeAction(success, label, metadata, rename, output, taken) ==
  IF ~rename THEN Outcome("done", "none", pdfAt, sidecarAt, metadata)
  ELSE IF success
  THEN LET config == BoostConfig(label)
           pattern == config.fields.final_name_pattern
           stem == IF Truthy(pattern) THEN pattern.l[1][1] ELSE label
       IN IF ~HasAttributes(config)
          THEN Outcome("raised", "AttributeError", pdfAt, sidecarAt, metadata)
          ELSE RenameWithSidecar(
                 UniqueDest(IF output = "" THEN pdfAt.dir ELSE output, stem, taken), metadata)
  ELSE RenameWithSidecar(UniqueDest("pdfclassify.rejects", pdfAt.stem, taken), metadata)

\* predict(): the sidecar fields written for a successful classification,
\* up to the first statement that raises.
WriteFields(label, confidence) ==
  LET config == BoostConfig(label)
      put(m, name, value) == WriteField(m, name, value, TRUE).metadata
      optional(m, name, value) == IF Truthy(value) THEN put(m, name, value) ELSE m
      m2 == put(put(LoadMetadata, "/classification", JStr(Word(label))),
                "/confidence", JFloat(confidence))
  IN IF ~HasAttributes(config) THEN [raised |-> TRUE, metadata |-> m2]
     ELSE [raised |-> FALSE,
           metadata |->
             optional(optional(optional(m2, "/preferred_context",
                                        config.fields.preferred_context),
                               "/minimum_parts", config.fields.minimum_parts),
                      "/devonthink_group", config.fields.devonthink_group)]

\* predict(): everything after classifier.predict() has returned or raised.
Route(rename, output, taken) ==
  CASE last.outcome \in {"empty", "extract_failed"} ->
         IF QueuesForOcr(ValueErrorText(last.outcome))
         THEN Outcome("done", "none", UniqueDest("pdfclassify.2ocr", pdfAt.stem, taken),
                      sidecarAt, sidecar)
         ELSE Outcome("raised", "ValueError", pdfAt, sidecarAt, sidecar)
    [] last.outcome = "not_trained" ->
         Outcome("raised", "RuntimeError", pdfAt, sidecarAt, sidecar)
    [] last.outcome = "classified" /\ last.success ->
         LET w == WriteFields(last.label, last.confidence)
         IN IF w.raised
            THEN Outcome("raised", "AttributeError", pdfAt, pdfAt, w.metadata)
            ELSE TakeAction(TRUE, last.label, w.metadata, rename, output, taken)
    [] last.outcome = "classified" /\ ~last.success ->
         TakeAction(FALSE, last.label, LoadMetadata, rename, output, taken)
    [] OTHER -> Outcome("raised", "Exception", pdfAt, sidecarAt, sidecar)

\* PdfProcess(pdf_path): _save_metadata records the original name and date.
NewProcess ==
  LET put(m, name, value) ==
        IF Get(m, name) = JNull THEN WriteField(m, name, value, TRUE).metadata ELSE m
      m2 == put(put(LoadMetadata, "/original_filename", JStr(<<pdfAt.stem, ".pdf">>)),
                "/original_date", JStr(Word("2025-05-23T10:00:00")))
  IN /\ proc.pc = "none"
     /\ IF PypdfReads(pdfContent)
        THEN /\ proc' = [proc EXCEPT !.pc = "ready"]
             /\ sidecar' = m2
             /\ sidecarAt' = pdfAt
        ELSE /\ proc' = [proc EXCEPT !.pc = "failed", !.error = "MyException"]
             /\ UNCHANGED <<sidecar, sidecarAt>>
     /\ UNCHANGED <<pdfContent, pdfAt, fileLast>>

\* predict(): a new classifier is built and trained.
ProcessTrain ==
  /\ proc.pc = "ready"
  /\ Train
  /\ proc' = IF TrainResult.outcome = "done" THEN [proc EXCEPT !.pc = "trained"]
             ELSE [proc EXCEPT !.pc = "raised", !.error = "Exception"]
  /\ UNCHANGED <<pdfContent, pdfAt, sidecarAt, sidecar, fileLast>>

\* predict(): classifier.predict(pdf_path, CONFIG.confidence_threshold)
ProcessClassify(th) ==
  /\ proc.pc = "trained"
  /\ Predict(pdfContent, th)
  /\ proc' = [proc EXCEPT !.pc = "answered"]
  /\ UNCHANGED <<pdfContent, pdfAt, sidecarAt, sidecar, fileLast>>

\* predict(): the result is recorded and the file is routed.
ProcessRoute(rename, output, taken) ==
  LET r == Route(rename, output, taken) IN
  /\ proc.pc = "answered"
  /\ proc' = [pc |-> r.pc, error |-> r.error, rename |-> rename, taken |-> taken]
  /\ pdfAt' = r.pdfAt
  /\ sidecarAt' = r.sidecarAt
  /\ sidecar' = r.sidecar
  /\ UNCHANGED <<pdfContent, fileLast, vars>>

\* A PDF in the inbox without a sidecar, any training documents, an empty
\* cache, and label_config.json absent or holding an entry for "invoice".
ProcessInit ==
  /\ corpus \in [Paths -> {NoFile} \cup [content : Contents, mtime : {0}]]
  /\ labelDirs = {LabelOf(p) : p \in {q \in Paths : Exists(corpus[q])}}
  /\ hashFile = NoHashes
  /\ embFiles = [p \in Paths |-> NoRecord]
  /\ modelFile = NoModel
  /\ mem = NotLoaded
  /\ prov = [mem |-> << >>, disk |-> << >>]
  /\ last = Quiet
  /\ edits = 0
  /\ LabelsAtRest
  /\ DiskAtRest
  /\ configFile \in {[kind |-> "absent", entries |-> NoEntries],
                     [kind |-> "dict", entries |-> [NoEntries EXCEPT !.invoice = FixtureEntry]]}
  /\ trainingDirs = labelDirs
  /\ manager = NoStore
  /\ cli = NoStore
  /\ storeLast = NoStoreOp
  /\ pdfContent \in ProcessContents
  /\ pdfAt = Original
  /\ sidecarAt = NoPlace
  /\ sidecar = NoMetadata
  /\ proc = NoProcess
  /\ fileLast = NoFileOp

ProcessNext ==
  \/ NewProcess /\ UNCHANGED <<vars, labelVars, storeVars, diskVars>>
  \/ ProcessTrain /\ UNCHANGED <<labelVars, storeVars, diskVars>>
  \/ (\E th \in Thresholds : ProcessClassify(th)) /\ UNCHANGED <<labelVars, storeVars, diskVars>>
  \/ (\E rename \in BOOLEAN, output \in {"", "out"}, taken \in SUBSET (0..MaxTaken) :
        ProcessRoute(rename, output, taken)) /\ UNCHANGED <<labelVars, storeVars, diskVars>>

ProcessSpec == ProcessInit /\ [][ProcessNext]_<<vars, labelVars, storeVars, fileVars, diskVars>>

\* ------------------------------------------------------------------ damaged cache
\* A record file in embeddings/ is damaged: joblib.load raises EOFError on a
\* "truncated" one and another error on a "garbage" one.
CorruptRecord(p, k) ==
  /\ embFiles[p].kind = "ok"
  /\ embFiles' = [embFiles EXCEPT ![p] = [kind |-> k, vec |-> <<0, 0>>, label |-> ""]]
  /\ last' = Quiet
  /\ edits < MaxEdits
  /\ edits' = edits + 1
  /\ UNCHANGED <<corpus, labelDirs, hashFile, modelFile, mem, prov>>

\* A data_dir with any documents, one of which may embed to the zero vector,
\* label directories that may hold no document and may hold other files, and
\* an empty cache directory.
CacheInit ==
  /\ corpus \in [Paths -> {NoFile} \cup [content : Contents \cup {"nul"}, mtime : {0}]]
  /\ labelDirs \in {d \in SUBSET Labels :
                      {LabelOf(p) : p \in {q \in Paths : Exists(corpus[q])}} \subseteq d}
  /\ otherFiles \in SUBSET labelDirs
  /\ crash = NoCrash
  /\ hashFile = NoHashes
  /\ embFiles = [p \in Paths |-> NoRecord]
  /\ modelFile = NoModel
  /\ mem = NotLoaded
  /\ prov = [mem |-> << >>, disk |-> << >>]
  /\ last = Quiet
  /\ edits = 0
  /\ LabelsAtRest
  /\ StoreAtRest
  /\ FilesAtRest

CacheNext ==
  \/ Idle /\ Train /\ UNCHANGED others
  \/ Idle /\ (\E c \in QueryContents \cup {"nul"}, th \in Thresholds : Predict(c, th))
          /\ UNCHANGED others
  \/ Return /\ UNCHANGED others
  \/ Idle /\ NewInstance /\ UNCHANGED others
  \/ Idle /\ (\E p \in Paths, k \in {"truncated", "garbage"} : CorruptRecord(p, k))
          /\ UNCHANGED others

CacheSpec == CacheInit /\ [][CacheNext]_<<vars, others>>

\* ------------------------------------------------------------------ killed runs
\* The process is killed while train() runs.  A point names the statement the
\* run had reached: "prune" inside the rmdir loop after `done` directories,
\* "scan" inside the loop of _load_data after `done` paths (torn: inside
\* joblib.dump of the next one), "evict" inside the unlink loop after the
\* records of `evicted`, "model" inside or right after joblib.dump of
\* model.joblib, "snapshot" inside json.dump of file_hashes.json.

\* iterdir(): the label directories in the order train() visits them.
LabelOrder == <<"invoice", "report">>

\* The label directories after the rmdir loop has visited the first k.
PrunedFirst(k) ==
  {d \in labelDirs : d \in Pruned \/ ~(\E i \in 1..k : LabelOrder[i] = d)}

\* embeddings/ after the scan loop has gone through the first k paths.
ScannedFirst(prev, k) ==
  [q \in Paths |-> IF \E i \in 1..k : ScanOrder[i] = q
                   THEN ScanRecords(prev)[q] ELSE embFiles[q]]

\* A file whose write was cut short: it exists, and joblib.load raises
\* EOFError ("truncated") or UnpicklingError ("garbage") on it.
TornRecord(k) == [kind |-> k, vec |-> <<0, 0>>, label |-> ""]
TornModel(k) == [kind |-> k, vectors |-> << >>, labels |-> << >>]

KillPoints ==
  [stage : {"prune"}, done : 0..Len(LabelOrder), torn : {"no"}, evicted : {{}}]
  \cup [stage : {"scan"}, done : 0..Len(ScanOrder),
        torn : {"no", "truncated", "garbage"}, evicted : {{}}]
  \cup [stage : {"evict"}, done : {0}, torn : {"no"}, evicted : SUBSET Paths]
  \cup [stage : {"model"}, done : {0}, torn : {"no", "truncated", "garbage"},
        evicted : {{}}]
  \cup [stage : {"snapshot"}, done : {0}, torn : {"truncated"}, evicted : {{}}]

\* The run gets as far as the point: it has not raised before, the write it is
\* killed in is one it makes, and the files it is killed after are the ones
\* it unlinks.
Reaches(point) ==
  LET prev == PreviousHashes(hashFile)
      recs == ScanRecords(prev)
  IN /\ PrevIsDict(hashFile)
     /\ point.stage = "scan" =>
          /\ Unreadable(SubSeq(ScanOrder, 1, point.done), recs) = << >>
          /\ point.torn # "no" =>
               /\ point.done < Len(ScanOrder)
               /\ ScanOrder[point.done + 1] \in UpdatedBy(prev)
     /\ point.stage \in {"evict", "model", "snapshot"} =>
          Unreadable(ScanOrder, recs) = << >>
     /\ point.stage = "evict" => point.evicted \subseteq DeletedFiles(prev)
     /\ point.stage \in {"model", "snapshot"} =>
          ShouldPersist(Stacked(Loaded(ScanOrder, recs), recs))

\* Mutant of SnapshotAt: json.dump of the new hashes comes before the scan.
SnapshotWrittenFirst(point, full) ==
  IF point.stage = "prune" THEN hashFile
  ELSE [kind |-> "map", map |-> NewHashes]

\* file_hashes.json when the run is killed at the point: open(..., "w") and
\* json.dump are the last statements of train(); a file cut short in them
\* does not parse.
SnapshotAt(point, full) ==
  IF point.stage = "snapshot" THEN [kind |-> "invalid", map |-> EmptyMap]
  ELSE hashFile

\* model.joblib when the run is killed at the point.
ModelAt(point, full) ==
  CASE point.stage = "snapshot" -> full.modelFile
    [] point.stage = "model" /\ point.torn = "no" -> full.modelFile
    [] point.stage = "model" /\ point.torn # "no" -> TornModel(point.torn)
    [] OTHER -> modelFile

\* embeddings/ when the run is killed at the point.
RecordsAt(point, full) ==
  LET prev == PreviousHashes(hashFile) IN
  CASE point.stage = "prune" -> embFiles
    [] point.stage = "scan" /\ point.torn = "no" -> ScannedFirst(prev, point.done)
    [] point.stage = "scan" /\ point.torn # "no" ->
         [ScannedFirst(prev, point.done)
            EXCEPT ![ScanOrder[point.done + 1]] = TornRecord(point.torn)]
    [] point.stage = "evict" -> EvictStale(ScanRecords(prev), point.evicted)
    [] OTHER -> full.embFiles

\* What the killed run leaves: the files on disk, and no instance.
Interrupted(point) ==
  LET full == TrainResult IN
  [Same EXCEPT !.outcome = "killed", !.via = "train",
               !.labelDirs = IF point.stage = "prune" THEN PrunedFirst(point.done)
                             ELSE Pruned,
               !.embFiles = RecordsAt(point, full),
               !.modelFile = ModelAt(point, full),
               !.hashFile = SnapshotAt(point, full),
               !.mem = NotLoaded,
               !.prov = [mem |-> << >>,
                         disk |-> IF ModelAt(point, full) = modelFile THEN prov.disk
                                  ELSE IF ModelAt(point, full).kind = "ok"
                                       THEN full.prov.disk ELSE << >>]]

\* What train() leaves on disk when nothing interrupts it.
Uninterrupted ==
  Persisted(TrainResult.labelDirs, TrainResult.hashFile, TrainResult.embFiles,
            TrainResult.modelFile)

\* train() is killed at the point; the next operation finds a new process.
KilledTrain(point) ==
  /\ crash.pc # "killed"
  /\ Reaches(point)
  /\ Apply(Interrupted(point))
  /\ crash' = [pc |-> "killed", point |-> point,
               before |-> Persisted(labelDirs, hashFile, embFiles, modelFile),
               expected |-> Uninterrupted]
  /\ last' = Quiet
  /\ UNCHANGED <<corpus, edits, otherFiles>>

\* train() runs to its end; after a killed run it is the run that recovers.
CompleteTrain ==
  /\ Train
  /\ crash' = IF crash.pc = "killed" THEN [crash EXCEPT !.pc = "recovered"]
              ELSE NoCrash
  /\ UNCHANGED otherFiles

\* The corpus changes between two runs, not between a killed run and the
\* run that follows it.
Between ==
  /\ crash.pc # "killed"
  /\ crash' = NoCrash
  /\ UNCHANGED otherFiles

aside == <<labelVars, storeVars, fileVars>>

\* The documents of the corpus a run is killed over: two that embed to
\* different vectors and one without text.
CrashContents == {"inv", "rep", "blank"}

\* A classifier is constructed over a data_dir that holds any of these
\* documents, with an empty cache directory.
CrashInit ==
  /\ Init
  /\ \A p \in Paths : corpus[p].content \in CrashContents \cup {"none"}

CrashNext ==
  \/ (\E p \in Paths, c \in CrashContents : AddDoc(p, c)) /\ Between /\ UNCHANGED aside
  \/ (\E p \in Paths, c \in CrashContents : ModifyDoc(p, c)) /\ Between
       /\ UNCHANGED aside
  \/ (\E p \in Paths : DeleteDoc(p)) /\ Between /\ UNCHANGED aside
  \/ (\E point \in KillPoints : KilledTrain(point)) /\ UNCHANGED aside
  \/ CompleteTrain /\ UNCHANGED aside

CrashSpec == CrashInit /\ [][CrashNext]_<<vars, others>>

\* ------------------------------------------------------------------ claims
Range(seq) == {seq[i] : i \in 1..Len(seq)}

\* The documents of the corpus, and those that yield non-empty text.
Present == {p \in Paths : Exists(corpus[p])}
WithText == {p \in Present : Extractable(corpus[p].content)
                             /\ Strip(TextOf(corpus[p].content)) # << >>}
\* The paths with a record in embeddings/.
Cached == {p \in Paths : embFiles[p].kind # "absent"}

\* C1: when train() has run to completion and train() runs to completion again
\* with nothing done in between, the second run embeds no document (it logs no
\* "Updated embedding").
C1_Idempotent ==
  (last.trained = "done" /\ last.before \in {"train", "train_zero"}) => last.updated = {}

\* A second train() in a row over a corpus whose two documents were both
\* embedded by the first: both rows are reused.
C1_Witness ==
  /\ last.op = "train" /\ last.trained = "done" /\ last.before = "train"
  /\ Len(mem.labels) = 2

\* C2: a training document has a record and a snapshot entry, its content and
\* modification time are changed, and train() runs to completion: the hash the
\* snapshot stores for it differs from the one stored before, and its record is
\* one computed in this run from the new content.
C2_ChangeDetection ==
  [][\A p \in Paths :
       ( /\ last'.trained = "done"
         /\ hashFile.kind = "map" /\ hashFile.map[p] # NoHash
         /\ embFiles[p].kind = "ok"
         /\ Exists(corpus[p])
         /\ hashFile.map[p][1] # corpus[p].content
         /\ hashFile.map[p][2] # corpus[p].mtime )
       => ( /\ hashFile'.kind = "map"
            /\ hashFile'.map[p] # hashFile.map[p]
            /\ p \in last'.updated
            /\ embFiles'[p].kind = "ok"
            /\ embFiles'[p].vec = Embed(TextOf(corpus[p].content)) )]_vars

\* The rows a later predict() compares against: the model in memory, else the
\* persisted model it loads.
ComparedAgainst ==
  IF mem.loaded THEN Range(prov.mem)
  ELSE IF modelFile.kind = "ok" THEN Range(prov.disk) ELSE {}

\* A document with a record, listed in the snapshot, is gone from the corpus,
\* and train() runs to completion in this step.
RemovedThenTrained(p) ==
  /\ last'.trained = "done"
  /\ ~Exists(corpus[p])
  /\ embFiles[p].kind = "ok"
  /\ hashFile.kind = "map" /\ hashFile.map[p] # NoHash

C4_CorruptSnapshot ==
  [][(hashFile.kind \in {"invalid", "nonobject"} /\ last'.trained # "no")
     => (last'.trained = "done" /\ last'.updated = WithText)]_vars

\* C5: after a completed train() over a corpus whose documents all yield text,
\* the records in embeddings/ are those of the documents of the corpus.
C5_RecordPerDocument ==
  (last.trained = "done" /\ WithText = Present)
  => (Cached = Present /\ Cardinality(Cached) = Cardinality(Present))

\* The persisted model holds, at some row, the label and the similarity the
\* Classification r reports, and no row has a higher similarity.
AnswersFrom(mf, r) ==
  LET sims == Sims(Embed(TextOf(r.query)), mf.vectors)
  IN \E i \in 1..Len(sims) :
       /\ mf.labels[i] = r.label
       /\ sims[i] = r.confidence
       /\ \A j \in 1..Len(sims) : sims[j] <= sims[i]

\* C6: a train() that assembles no row leaves model.joblib and file_hashes.json
\* as they were, and predict() on a document with text, called while no model
\* is in memory and the persisted model is in place, answers from that model.
C6_ZeroKeepsModel ==
  [][ /\ (last'.trained = "done" /\ ~mem'.loaded)
         => (modelFile' = modelFile /\ hashFile' = hashFile)
      /\ (~mem.loaded /\ modelFile.kind = "ok"
          /\ last'.op = "predict" /\ last'.query \in {"inv", "mix"})
         => ( /\ last'.outcome = "classified"
              /\ modelFile' = modelFile
              /\ mem'.vectors = modelFile.vectors /\ mem'.labels = modelFile.labels
              /\ AnswersFrom(modelFile, last') )]_vars

\* predict() right after a train() that assembled nothing, answered from the
\* model an earlier run persisted.
C6_Witness ==
  /\ last.op = "predict" /\ last.before = "train_zero" /\ last.outcome = "classified"
  /\ modelFile.kind = "ok" /\ Present = {}

\* C7: a returned Classification has success = TRUE exactly when its confidence
\* is at least the threshold.
C7_ThresholdInclusive ==
  last.outcome = "classified"
  => (last.success <=> (last.confidence # NaN /\ last.confidence >= last.threshold))

\* A confidence equal to the threshold, reported as a success.
C7_Witness ==
  last.outcome = "classified" /\ last.confidence = last.threshold /\ last.success

\* C8: predict() on a document whose text is empty or only whitespace raises
\* the empty-document error, whatever the cache and the corpus hold.
C8_EmptyText ==
  (last.op = "predict" /\ last.query \in {"blank", "empty"}) => last.outcome = "empty"

\* A whitespace-only document rejected while the persisted model is damaged,
\* no model is in memory and the corpus holds a document.
C8_Witness ==
  /\ last.op = "predict" /\ last.query = "blank" /\ last.outcome = "empty"
  /\ modelFile.kind = "garbage" /\ ~mem.loaded /\ Present # {}

\* C9: a Classification is computed from a model with at least one row, and a
\* predict() on a document with text that ends its model block without a model
\* raises the not-trained error.
C9_NotTrained ==
  /\ last.outcome = "classified"
     => (mem.loaded /\ Len(mem.vectors) >= 1 /\ Len(mem.labels) = Len(mem.vectors))
  /\ (last.op = "predict" /\ last.query \in {"inv", "mix"}
      /\ last.outcome # "raised" /\ ~mem.loaded)
     => last.outcome = "not_trained"

\* predict() found no persisted model, trained, and no row came of it.
C9_Witness ==
  last.op = "predict" /\ last.outcome = "not_trained" /\ last.trained = "done"

\* The reference computation of C10: cosine similarity plus the label's boost,
\* first maximum, confidence capped at 1.0.
Boosted(m, c) ==
  LET sims == Sims(Embed(TextOf(c)), m.vectors)
  IN [i \in 1..Len(sims) |-> sims[i] + BoostScore(m.labels[i], TextOf(c))]

\* C10: the label and confidence predict() returns are those of the boosted
\* reference computation.
C10_BoostedScoring ==
  last.outcome = "classified"
  => LET b == Boosted(mem, last.query)
         best == ArgMax(b)
     IN /\ last.label = mem.labels[best]
        /\ last.confidence = (IF b[best] < 100 THEN b[best] ELSE 100)

\* The PdfProcess has run predict() to its end on a document for which
\* classifier.predict() gave the outcomes in the set.
Routed(outcomes) ==
  proc.pc \in {"done", "raised"} /\ last.op = "predict" /\ last.outcome \in outcomes

\* C11: a document whose extraction fails and a document whose text is empty
\* or blank are treated alike: PdfProcess.predict moves both to the OCR queue.
C11_ExtractionFailureIsEmpty ==
  Routed({"extract_failed", "empty"})
    => (proc.pc = "done" /\ pdfAt.dir = "pdfclassify.2ocr")

\* C12: with renaming enabled every outcome of the prediction moves the PDF to
\* one destination and leaves nothing at the original path: a success to the
\* output directory under the label or its final_name_pattern, a result below
\* the threshold to pdfclassify.rejects under its stem, an empty text to
\* pdfclassify.2ocr.
C12_OutcomeRouting ==
  (Routed({"classified", "empty"}) /\ proc.rename)
    => /\ proc.pc = "done"
       /\ pdfAt # Original
       /\ (last.outcome = "classified" /\ last.success)
            => /\ pdfAt.dir \in {"inbox", "out"}
               /\ pdfAt.stem \in {last.label, "invoice_{date}"}
       /\ (last.outcome = "classified" /\ ~last.success)
            => (pdfAt.dir = "pdfclassify.rejects" /\ pdfAt.stem = Original.stem)
       /\ last.outcome = "empty" => pdfAt.dir = "pdfclassify.2ocr"

\* C13: the boost of a loaded LabelConfig is the sentinel -1.0 or lies in
\* [0.0, 0.07]; a number above 0.07 loads as 0.07, a number below 0.0 as -1.0,
\* and a missing or non-numeric value as -1.0.
C13_BoostClamp ==
  cfg.kind = "LabelConfig"
  => LET b == cfg.fields.boost
         r == raw.boost
     IN /\ b = JFloat(-100) \/ (b.t \in {"bool", "int", "float"} /\ b.n >= 0 /\ b.n <= 7)
        /\ (r.t \in {"bool", "int", "float"} /\ r.n > 7) => b = JFloat(7)
        /\ (r.t \in {"bool", "int", "float"} /\ r.n < 0) => b = JFloat(-100)
        /\ ~IsNumber(r) => b = JFloat(-100)

\* C14: is_complete of a loaded LabelConfig is true exactly when boost_phrases
\* is a list and boost is a number >= 0.0, a boost of integer 0 included.
C14_IsComplete ==
  cfg.kind = "LabelConfig"
  => (IsComplete(cfg) <=> (/\ cfg.fields.boost_phrases.t = "list"
                           /\ cfg.fields.boost.t \in {"bool", "int", "float"}
                           /\ cfg.fields.boost.n >= 0))

\* C15: a minimum_parts list loads as its recognised entries in their order,
\* and as the default only when none is recognised.
C15_MinimumPartsFiltered ==
  (cfg.kind = "LabelConfig" /\ raw.minimum_parts.t = "list")
  => LET kept == SelectSeq(raw.minimum_parts.l, IsAllowedPart)
     IN cfg.fields.minimum_parts.l = (IF kept = << >> THEN DefaultMinimumParts ELSE kept)

\* C16: boost_phrases or preferred_context given as one comma-separated string
\* loads as the list of its trimmed, non-empty parts.
C16_CommaSplitOnLoad ==
  cfg.kind = "LabelConfig"
  => \A f \in ListFields :
       raw[f].t = "str" => cfg.fields[f] = JList(SplitTrim(raw[f].l[1]))

\* The configuration the last synchronisation was run on.
Synced == IF storeLast.op = "manager_sync" THEN manager.config ELSE cli.config

\* is_complete of the store that ran the last synchronisation.
SyncedIsComplete(label) ==
  IF storeLast.op = "manager_sync" THEN ManagerIsComplete(manager.config, label)
  ELSE CliIsComplete(cli.config, label)

\* C17: after a synchronisation by LabelBoostManager or by LabelBoostCLI every
\* label directory has an entry, and every entry the synchronisation created
\* has the sentinel boost -1.0 and is reported as not complete.
C17_SyncCreatesUnconfigured ==
  storeLast.op \in {"manager_sync", "cli_sync"}
  => /\ \A label \in trainingDirs : Synced[label].kind # "none"
     /\ \A label \in storeLast.created :
          /\ Synced[label].fields.boost = JFloat(-100)
          /\ ~SyncedIsComplete(label)

\* C18: every entry of LabelBoostManager.config and every result of get() is a
\* LabelConfig, whose fields are attributes, and its boost is at most the
\* ceiling 0.07.
C18_ManagerHoldsLabelConfigs ==
  /\ manager.built
     => \A label \in ConfigKeys(manager.config) :
          /\ manager.config[label].kind = "LabelConfig"
          /\ ~Greater(manager.config[label].fields.boost, ClampMax)
  /\ storeLast.op = "get"
     => (storeLast.got.kind = "LabelConfig" /\ ~Greater(storeLast.got.fields.boost, ClampMax))

\* C19: the sidecar field names are used consistently, upper-case ones such
\* as '/Classification' included: a read that follows write_custom_field(name, v)
\* returns v; a write with overwrite=False that follows it returns False and
\* leaves v; a read that follows delete_custom_field(name) returns None.
C19_FieldNamesConsistent ==
  [][LET same == fileLast'.name = fileLast.name
         wrote == fileLast.op = "write" /\ fileLast.result = JBool(TRUE)
     IN /\ (wrote /\ same /\ fileLast'.op = "read") => fileLast'.result = fileLast.arg
        /\ (wrote /\ same /\ fileLast'.op = "write" /\ ~fileLast'.overwrite)
             => (fileLast'.result = JBool(FALSE) /\ sidecar' = sidecar)
        /\ (fileLast.op = "delete" /\ same /\ fileLast'.op = "read")
             => fileLast'.result = JNull]_fileVars

\* C20: when the sidecar holds a '/minimum_parts' list, as PdfProcess writes
\* it, load_minimum_parts returns that list.
C20_MinimumPartsRead ==
  (fileLast.op = "load_minimum_parts" /\ SidecarExists /\ sidecar["/minimum_parts"] # Missing)
    => fileLast.result = sidecar["/minimum_parts"]

\* C21: predict() on an instance that holds no model runs the training
\* pipeline before it scores, also when model.joblib and file_hashes.json exist.
C21_PredictRetrains ==
  (last.op = "predict" /\ last.outcome \in {"classified", "not_trained", "raised"}
   /\ last.via # "none")
    => last.trained # "no"

\* C22: after a completed train() a document whose extraction fails or whose
\* text is empty has no record, and every row of the assembled model is the
\* embedding of the current content of a document of the corpus.
C22_FailedDocumentSkipped ==
  last.trained = "done"
    => /\ \A p \in Present \ WithText : embFiles[p].kind = "absent"
       /\ \A i \in 1..Len(prov.mem) :
            /\ prov.mem[i] \in WithText
            /\ mem.vectors[i] = Embed(TextOf(corpus[prov.mem[i]].content))

\* C23: a train() that finds a damaged record of an unchanged document with
\* text runs to completion, and the second of two runs in a row has rebuilt
\* the record and holds a row for the document.
C23_CorruptRecordRebuilt ==
  [][\A p \in WithText :
       (embFiles[p].kind \in {"truncated", "garbage"} /\ last'.op = "train")
         => /\ last'.trained = "done"
            /\ last.op = "train" => (embFiles'[p].kind = "ok" /\ p \in Range(prov'.mem))]_vars

\* C25: a Classification is never computed into NaN: its confidence is a
\* number, success says whether it is at least the threshold, and the row it
\* names has a norm other than zero when such a row exists.
C25_ZeroNormIsZero ==
  last.outcome = "classified"
    => /\ last.confidence # NaN
       /\ last.success <=> last.confidence >= last.threshold
       /\ (\E i \in 1..Len(mem.vectors) : Norm(mem.vectors[i]) # 0)
            => \E i \in 1..Len(mem.vectors) :
                 Norm(mem.vectors[i]) # 0 /\ mem.labels[i] = last.label

\* C28: when train() has returned, every label directory under data_dir holds
\* a training document, also a directory that held only other files.
C28_EmptyDirectoriesPruned ==
  last.trained = "done"
    => \A d \in labelDirs : \E p \in Present : LabelOf(p) = d

\* C26: when train() has persisted, the keys of the snapshot are the documents
\* of the corpus, those whose extraction failed included, and each hash is the
\* fingerprint of the document as it is.
C26_SnapshotCoversCorpus ==
  (last.trained = "done" /\ mem.loaded)
    => /\ hashFile.kind = "map"
       /\ Keys(hashFile.map) = Present
       /\ \A p \in Present : hashFile.map[p] = <<corpus[p].content, corpus[p].mtime>>

\* train() persisted a snapshot that lists a document without text next to an
\* embedded one.
C26_Witness ==
  /\ last.op = "train" /\ last.trained = "done" /\ mem.loaded
  /\ Present \ WithText # {}
  /\ Keys(hashFile.map) = Present

\* The rows of model m were built from the documents src: as many labels as
\* rows, and the label of each row is the directory of its document.
Aligned(m, src) ==
  /\ Len(m.labels) = Len(m.vectors)
  /\ Len(src) = Len(m.labels)
  /\ \A i \in 1..Len(src) : m.labels[i] = LabelOf(src[i])

\* C27: the model in memory and the persisted model are aligned after every
\* training run, whatever was added, modified or deleted before.
C27_ModelAligned ==
  /\ Aligned(mem, prov.mem)
  /\ modelFile.kind = "ok" => Aligned(modelFile, prov.disk)

\* train() assembled the one row of the second document of the scan, the first
\* document having no text.
C27_Witness ==
  /\ last.op = "train" /\ last.trained = "done"
  /\ prov.mem = <<ScanOrder[2]>> /\ Exists(corpus[ScanOrder[1]])
  /\ modelFile.kind = "ok" /\ prov.disk = prov.mem

\* C29: for a loaded LabelConfig and every text, get_boost_if_matched returns a
\* number between 0.0 and the ceiling 0.07.
C29_BoostInRange ==
  cfg.kind = "LabelConfig"
    => \A text \in Texts :
         LET b == GetBoostIfMatched(cfg, text)
         IN b.t \in {"int", "float", "bool"} /\ 0 <= b.n /\ b.n <= ClampMax

====
